---- MODULE Spec2Model ----
(***************************************************************************)
(* Model of streamlit_app.py: parse_time and the clip pipeline             *)
(* download_and_resize_clip (validate, fetch, probe engine, trim, resize,  *)
(* overlay, cleanup, return).                                              *)
(*                                                                         *)
(* Python floats are modelled as records: a finite value is an integer     *)
(* count of half seconds ([k |-> "fin", v |-> n] is n/2 seconds), and      *)
(* inf, -inf and nan are values of their own, with IEEE arithmetic.        *)
(***************************************************************************)
EXTENDS Integers, Sequences, FiniteSets, TLC

\* ------------------------------------------------------------------------
\* Bounds of the model
\* ------------------------------------------------------------------------

\* Largest number of colon-separated segments in a time text handed to a run.
MaxSegments == 2

\* Largest number of segments in a time text handed to parse_time alone.
MaxParseSegments == 4

\* Largest number of times the cleanup block is run on one scratch directory.
MaxCleanups == 2

\* Largest number of events the download hook is called with.
MaxHookCalls == 2

\* ------------------------------------------------------------------------
\* Python float values
\* ------------------------------------------------------------------------

Fin(n) == [k |-> "fin", v |-> n]
INF == [k |-> "inf", v |-> 0]
NINF == [k |-> "ninf", v |-> 0]
NAN == [k |-> "nan", v |-> 0]

\* The exception float() raises on a text that is not a number.
ValueError == [k |-> "ValueError", v |-> 0]

\* The colon-free segment texts the model draws from.
SegmentTexts ==
    {"0", "0.5", "1", "2", "15", "23", "30", "45", "90", "-1", "inf", "abc", ""}

\* float(text): surrounding text is a number, "inf", or not a number at all.
float(text) ==
    CASE text = "0" -> Fin(0)
      [] text = "0.5" -> Fin(1)
      [] text = "1" -> Fin(2)
      [] text = "2" -> Fin(4)
      [] text = "15" -> Fin(30)
      [] text = "23" -> Fin(46)
      [] text = "30" -> Fin(60)
      [] text = "45" -> Fin(90)
      [] text = "90" -> Fin(180)
      [] text = "-1" -> Fin(-2)
      [] text = "inf" -> INF
      [] text = "0.0" -> Fin(0)
      [] text = "50.0" -> Fin(100)
      [] text = "100.0" -> Fin(200)
      [] text = "150.0" -> Fin(300)
      [] text = "-50.0" -> Fin(-100)
      [] OTHER -> ValueError

\* x * n for a positive finite constant n (60, 3600).
FMulConst(x, n) ==
    IF x.k = "fin" THEN Fin(x.v * n) ELSE x

\* x / n for a positive finite constant n that divides x (100).
FDivConst(x, n) ==
    IF x.k = "fin" THEN Fin(x.v \div n) ELSE x

\* x + y in IEEE arithmetic.
FAdd(x, y) ==
    CASE x.k = "nan" \/ y.k = "nan" -> NAN
      [] x.k = "inf" /\ y.k = "ninf" -> NAN
      [] x.k = "ninf" /\ y.k = "inf" -> NAN
      [] x.k = "inf" \/ y.k = "inf" -> INF
      [] x.k = "ninf" \/ y.k = "ninf" -> NINF
      [] OTHER -> Fin(x.v + y.v)

FNeg(x) ==
    CASE x.k = "fin" -> Fin(0 - x.v)
      [] x.k = "inf" -> NINF
      [] x.k = "ninf" -> INF
      [] OTHER -> NAN

\* x - y
FSub(x, y) == FAdd(x, FNeg(y))

\* x <= y: every comparison with nan is false.
FLe(x, y) ==
    CASE x.k = "nan" \/ y.k = "nan" -> FALSE
      [] x.k = "ninf" -> TRUE
      [] y.k = "inf" -> TRUE
      [] x.k = "inf" -> FALSE
      [] y.k = "ninf" -> FALSE
      [] OTHER -> x.v <= y.v

\* max(0, x) as Python computes it: x if x > 0 else 0 (nan gives 0).
FMax0(x) == IF FLe(x, Fin(0)) \/ x.k = "nan" THEN Fin(0) ELSE x

\* ------------------------------------------------------------------------
\* parse_time
\* ------------------------------------------------------------------------

\* A time text is the sequence of its colon-separated segments:
\* time_str.split(':') of a text with n colons is its n+1 segments.
split(time_str) == time_str

\* list(map(float, segments)) raises ValueError as soon as one segment is
\* not a number.
MapFloatRaises(segs) == \E i \in 1..Len(segs) : float(segs[i]) = ValueError

\* list(map(float, segments)) otherwise: the list of floats.
MapFloat(segs) == [i \in 1..Len(segs) |-> float(segs[i])]

\* Variant of parse_time: the hours are multiplied by 60 instead of 3600.
parse_time_hours_times_60(time_str) ==
    IF MapFloatRaises(split(time_str)) THEN ValueError
    ELSE LET parts == MapFloat(split(time_str)) IN
         CASE Len(parts) = 1 -> parts[1]
           [] Len(parts) = 2 -> FAdd(FMulConst(parts[1], 60), parts[2])
           [] Len(parts) = 3 ->
                FAdd(FAdd(FMulConst(parts[1], 60), FMulConst(parts[2], 60)),
                     parts[3])
           [] OTHER -> ValueError

\* Variant of parse_time: no else branch, a longer text is read as its first
\* three segments.
parse_time_no_else(time_str) ==
    IF MapFloatRaises(split(time_str)) THEN ValueError
    ELSE LET parts == MapFloat(split(time_str)) IN
         CASE Len(parts) = 1 -> parts[1]
           [] Len(parts) = 2 -> FAdd(FMulConst(parts[1], 60), parts[2])
           [] OTHER ->
                FAdd(FAdd(FMulConst(parts[1], 3600), FMulConst(parts[2], 60)),
                     parts[3])

\* parse_time(time_str): the seconds, or ValueError.
parse_time(time_str) ==
    IF MapFloatRaises(split(time_str)) THEN ValueError
    ELSE LET parts == MapFloat(split(time_str)) IN
         CASE Len(parts) = 1 -> parts[1]
           [] Len(parts) = 2 -> FAdd(FMulConst(parts[1], 60), parts[2])
           [] Len(parts) = 3 ->
                FAdd(FAdd(FMulConst(parts[1], 3600), FMulConst(parts[2], 60)),
                     parts[3])
           [] OTHER -> ValueError

\* The time texts of 1..n segments drawn from S.
TimeTexts(S, n) == UNION {[1..k -> S] : k \in 1..n}

\* The segment texts of the time texts handed to a run: zero, a fraction of
\* a second, a negative number, infinity, a word and the empty text.
RunSegmentTexts == {"0", "0.5", "-1", "inf", "abc", ""}

\* The texts handed to parse_time alone.
ParseTimeTexts == TimeTexts(SegmentTexts, MaxParseSegments)

\* The start and end texts a caller may pass to a run.
RunTimeTexts == TimeTexts(RunSegmentTexts, MaxSegments)

\* ------------------------------------------------------------------------
\* Files of the scratch directory, errors, collaborators
\* ------------------------------------------------------------------------

\* A file name of the scratch directory: stem and extension.
Name(stem, ext) == [stem |-> stem, ext |-> ext]
NoFile == Name("", "")

\* outtmpl 'temp_download.%(ext)s': the resolver chooses the extension.
DownloadNames == {Name("temp_download", ".mp4"), Name("temp_download", ".webm")}
PartialDownload == Name("temp_download", ".mp4.part")
cookies_file == Name("cookies", ".txt")
trimmed_file == Name("trimmed", ".mp4")
resized_file == Name("temp_resized", ".mp4")
temp_final == Name("temp_final", ".mp4")

\* A raised exception: its type and its message.
Err(type, msg) == [type |-> type, msg |-> msg]
NoError == Err("", "")
NoValue == [k |-> "unset", v |-> 0]
NoInfo == [has |-> FALSE, uploader |-> "no info"]
NoEvent == [status |-> "", has_percent |-> FALSE, percent_str |-> <<>>]

\* The stages of a run, in their order.
StageOrder ==
    <<"validate", "resolve", "download", "trim", "resize", "overlay", "cleanup">>
Stages == {StageOrder[i] : i \in 1..Len(StageOrder)}

\* What ydl.extract_info may return: the uploader field present with a name,
\* present with a null value, or absent.
Infos == {[has |-> TRUE, uploader |-> "Some Channel"],
          [has |-> TRUE, uploader |-> "None"],
          [has |-> FALSE, uploader |-> ""]}

\* info.get('uploader', 'Unknown Channel')
InfoGetUploader(info) == IF info.has THEN info.uploader ELSE "Unknown Channel"

\* How a subprocess.run of the version probe may end.
ProbeOutcomes == {"ok", "CalledProcessError", "FileNotFoundError"}

\* Exit codes of an engine run; check=True raises CalledProcessError on non-zero.
ExitCodes == {0, 1}

VARIABLES
    pc,              \* position in download_and_resize_clip
    cookies_content, \* argument: "None" or the cookie text
    observer,        \* argument: progress_bar and status_text are given
    start_time, end_time, duration,
    temp_dir,        \* the scratch directory exists
    fs,              \* the files in the scratch directory
    channel_name,
    downloaded_file,
    ffmpeg_path,
    final_file,
    calls,           \* the operations on external resources, in order
    stages,          \* the stages invoked, in order
    stage_result,    \* per stage: "not_run", "ok" or "failed"
    status_text,     \* the last text shown on the observer
    warnings,        \* number of st.warning calls
    cleanup_ran,     \* the cleanup block was entered
    cleanup_error,   \* a removal raised during cleanup
    error,           \* the exception the run raised, or NoError
    result,          \* the path the run returned, or NoFile
    info,            \* what ydl.extract_info returned, or NoInfo
    enable_window,   \* the caption's enable window: <<start, end>>
    time_str,        \* parse_time alone: its argument
    parsed,          \* parse_time alone: what it returned or raised
    hook_d,          \* my_hook alone: the event it is called with
    progress         \* my_hook alone: the fractions given to progress_bar

vars == <<pc, cookies_content, observer, start_time, end_time, duration,
          temp_dir, fs, channel_name, downloaded_file, ffmpeg_path, final_file,
          calls, stages, stage_result, status_text, warnings, cleanup_ran,
          cleanup_error, error, result, info, enable_window, time_str, parsed,
          hook_d, progress>>

args == <<cookies_content, observer>>
times == <<start_time, end_time, duration>>
locals == <<info, enable_window, channel_name, downloaded_file, ffmpeg_path,
            final_file>>
\* The state of parse_time and my_hook applied on their own.
standalone == <<time_str, parsed, hook_d, progress>>
cleanup_state == <<cleanup_ran, cleanup_error>>

\* status_text.text(msg) when a status_text is given.
Show(msg) == status_text' = IF observer THEN msg ELSE status_text

\* An operation on an external resource is recorded with its argument and
\* with how it ended: "ok" or the exception it raised.
Call(op, arg, out) ==
    calls' = Append(calls, [op |-> op, arg |-> arg, out |-> out])

\* check=True: a non-zero exit code raises CalledProcessError.
RunOutcome(rc) == IF rc = 0 THEN "ok" ELSE "CalledProcessError"

\* Variant of Raise: the error does not say what failed.
RaiseAnonymous(e) == pc' = "failed" /\ error' = Err("Exception", "")

\* raise e: the run ends with the error.
Raise(e) == pc' = "failed" /\ error' = e

Begin(stage) == Append(stages, stage)
Set(stage, r) == [stage_result EXCEPT ![stage] = r]

Init ==
    /\ pc = "parse_start"
    /\ cookies_content \in {"None", "cookie text"}
    /\ observer \in BOOLEAN
    /\ start_time = NoValue
    /\ end_time = NoValue
    /\ duration = NoValue
    /\ temp_dir = FALSE
    /\ fs = {}
    /\ channel_name = ""
    /\ downloaded_file = NoFile
    /\ ffmpeg_path = ""
    /\ final_file = NoFile
    /\ calls = <<>>
    /\ stages = <<>>
    /\ stage_result = [s \in Stages |-> "not_run"]
    /\ status_text = ""
    /\ warnings = 0
    /\ cleanup_ran = FALSE
    /\ cleanup_error = FALSE
    /\ error = NoError
    /\ result = NoFile
    /\ info = NoInfo
    /\ enable_window = <<>>
    /\ time_str = <<>>
    /\ parsed = NoValue
    /\ hook_d = NoEvent
    /\ progress = <<>>

\* ------------------------------------------------------------------------
\* Validation (lines 38-44)
\* ------------------------------------------------------------------------

\* start_time = parse_time(start_time_str)
ParseStart ==
    /\ pc = "parse_start"
    /\ \E start_time_str \in RunTimeTexts :
         LET t == parse_time(start_time_str) IN
         IF t = ValueError
         THEN /\ Raise(Err("ValueError", "parse_time"))
              /\ stage_result' = Set("validate", "failed")
              /\ UNCHANGED start_time
         ELSE /\ start_time' = t
              /\ pc' = "parse_end"
              /\ UNCHANGED <<error, stage_result>>
    /\ stages' = Begin("validate")
    /\ UNCHANGED <<standalone, args, end_time, duration, temp_dir, fs, locals, calls,
                   status_text, warnings, cleanup_state, result>>

\* end_time = parse_time(end_time_str); duration = end_time - start_time
ParseEnd ==
    /\ pc = "parse_end"
    /\ \E end_time_str \in RunTimeTexts :
         LET t == parse_time(end_time_str) IN
         IF t = ValueError
         THEN /\ Raise(Err("ValueError", "parse_time"))
              /\ stage_result' = Set("validate", "failed")
              /\ UNCHANGED <<end_time, duration>>
         ELSE /\ end_time' = t
              /\ duration' = FSub(t, start_time)
              /\ pc' = "check_range"
              /\ UNCHANGED <<error, stage_result>>
    /\ UNCHANGED <<standalone, args, start_time, temp_dir, fs, locals, calls, stages,
                   status_text, warnings, cleanup_state, result>>

\* if duration <= 0: raise ValueError("End time must be after start time")
DurationRejected(d) == FLe(d, Fin(0))

CheckRange ==
    /\ pc = "check_range"
    /\ IF DurationRejected(duration)
       THEN /\ Raise(Err("ValueError", "End time must be after start time"))
            /\ stage_result' = Set("validate", "failed")
       ELSE /\ pc' = "mkdtemp"
            /\ stage_result' = Set("validate", "ok")
            /\ UNCHANGED error
    /\ UNCHANGED <<standalone, args, times, temp_dir, fs, locals, calls, stages,
                   status_text, warnings, cleanup_state, result>>

\* ------------------------------------------------------------------------
\* Scratch directory and fetch (lines 46-104)
\* ------------------------------------------------------------------------

\* temp_dir = tempfile.mkdtemp()
Mkdtemp ==
    /\ pc = "mkdtemp"
    /\ temp_dir' = TRUE
    /\ Call("mkdtemp", "", "ok")
    /\ pc' = "cookies"
    /\ UNCHANGED <<standalone, args, times, fs, locals, stages, stage_result, status_text,
                   warnings, cleanup_state, error, result>>

\* Variant of HasCookies: the credential file is written in every run.
HasCookiesAlways(c) == TRUE

\* if cookies_content: (None and the empty text are false)
HasCookies(c) == c \notin {"None", ""}

\* the credential file is written when a credential is supplied
WriteCookies ==
    /\ pc = "cookies"
    /\ IF HasCookies(cookies_content)
       THEN /\ fs' = fs \cup {cookies_file}
            /\ Call("write", "cookies.txt", "ok")
       ELSE UNCHANGED <<fs, calls>>
    /\ pc' = "extract_info"
    /\ UNCHANGED <<standalone, args, times, temp_dir, locals, stages, stage_result,
                   status_text, warnings, cleanup_state, error, result>>

\* info = ydl.extract_info(url, download=False); channel_name = info.get(...)
\* Any exception is re-raised as "Failed to download video".
ExtractInfo ==
    /\ pc = "extract_info"
    /\ stages' = Begin("resolve")
    /\ \/ \E i \in Infos :
            /\ Call("extract_info", "", "ok")
            /\ info' = i
            /\ channel_name' = InfoGetUploader(i)
            /\ Show("Starting download...")
            /\ stage_result' = Set("resolve", "ok")
            /\ pc' = "download"
            /\ UNCHANGED error
       \/ /\ Call("extract_info", "", "Exception")
          /\ Show("Extracting video information...")
          /\ stage_result' = Set("resolve", "failed")
          /\ Raise(Err("Exception", "Failed to download video"))
          /\ UNCHANGED <<info, channel_name>>
    /\ UNCHANGED <<standalone, args, times, temp_dir, fs, enable_window, downloaded_file,
                   ffmpeg_path, final_file, warnings, cleanup_state, result>>

\* ydl.download([url]): on success the resolver has written zero or more
\* files named by the output template; on failure it may leave a partial one.
Download ==
    /\ pc = "download"
    /\ stages' = Begin("download")
    /\ \/ \E produced \in SUBSET DownloadNames :
            /\ Call("download", "", "ok")
            /\ fs' = fs \cup produced
            /\ IF produced # {}
               THEN Show("Download complete. Initializing processing...")
               ELSE UNCHANGED status_text
            /\ stage_result' = Set("download", "ok")
            /\ pc' = "listdir"
            /\ UNCHANGED error
       \/ \E left \in SUBSET {PartialDownload} :
            /\ Call("download", "", "Exception")
            /\ fs' = fs \cup left
            /\ stage_result' = Set("download", "failed")
            /\ Raise(Err("Exception", "Failed to download video"))
            /\ UNCHANGED status_text
    /\ UNCHANGED <<standalone, args, times, temp_dir, locals, warnings, cleanup_state,
                   result>>

\* Variant of DownloadedFiles: the listing without the prefix filter.
DownloadedFilesUnfiltered(files) == files

\* [f for f in os.listdir(temp_dir) if f.startswith('temp_download')]
DownloadedFiles(files) == {f \in files : f.stem = "temp_download"}

\* if not downloaded_files: raise; downloaded_file = downloaded_files[0]
\* (os.listdir returns the names in arbitrary order)
FindFile ==
    /\ pc = "listdir"
    /\ Call("listdir", "", "ok")
    /\ LET downloaded_files == DownloadedFiles(fs) IN
       IF downloaded_files = {}
       THEN /\ stage_result' = Set("download", "failed")
            /\ Raise(Err("Exception", "No video file was downloaded"))
            /\ UNCHANGED downloaded_file
       ELSE /\ \E f \in downloaded_files : downloaded_file' = f
            /\ pc' = "probe_primary"
            /\ UNCHANGED <<error, stage_result>>
    /\ UNCHANGED <<standalone, args, times, temp_dir, fs, info,
                   enable_window, channel_name, ffmpeg_path,
                   final_file, stages, status_text, warnings, cleanup_state,
                   result>>

\* ------------------------------------------------------------------------
\* Engine probe (lines 106-116)
\* ------------------------------------------------------------------------

\* Variant of ProbeCaught: only CalledProcessError is caught.
ProbeCaughtExitOnly(e) == e = "CalledProcessError"

\* except (subprocess.CalledProcessError, FileNotFoundError):
ProbeCaught(e) == e \in {"CalledProcessError", "FileNotFoundError"}

ProbePrimary ==
    /\ pc = "probe_primary"
    /\ Show("Checking FFmpeg...")
    /\ ffmpeg_path' = "ffmpeg"
    /\ \E out \in ProbeOutcomes :
         /\ Call("probe", "ffmpeg", out)
         /\ IF out = "ok" THEN pc' = "trim" /\ UNCHANGED error
            ELSE IF ProbeCaught(out)
            THEN pc' = "probe_fallback" /\ UNCHANGED error
            ELSE Raise(Err(out, ""))
    /\ UNCHANGED <<standalone, args, times, temp_dir, fs, info,
                   enable_window, channel_name, downloaded_file,
                   final_file, stages, stage_result, warnings, cleanup_state,
                   result>>

\* Variant of ProbeFallback: ffmpeg_path is not set to the fallback location.
ProbeFallbackKeepsPath ==
    /\ pc = "probe_fallback"
    /\ \E out \in ProbeOutcomes :
         /\ Call("probe", "/usr/bin/ffmpeg", out)
         /\ IF out = "ok" THEN pc' = "trim" /\ UNCHANGED error
            ELSE IF ProbeCaught(out)
            THEN Raise(Err("Exception", "FFmpeg is not available"))
            ELSE Raise(Err(out, ""))
    /\ UNCHANGED <<standalone, args, times, temp_dir, fs, locals, stages,
                   stage_result, status_text, warnings, cleanup_state, result>>

ProbeFallback ==
    /\ pc = "probe_fallback"
    /\ ffmpeg_path' = "/usr/bin/ffmpeg"
    /\ \E out \in ProbeOutcomes :
         /\ Call("probe", "/usr/bin/ffmpeg", out)
         /\ IF out = "ok" THEN pc' = "trim" /\ UNCHANGED error
            ELSE IF ProbeCaught(out)
            THEN Raise(Err("Exception", "FFmpeg is not available"))
            ELSE Raise(Err(out, ""))
    /\ UNCHANGED <<standalone, args, times, temp_dir, fs, info,
                   enable_window, channel_name, downloaded_file,
                   final_file, stages, stage_result, status_text, warnings,
                   cleanup_state, result>>

\* ------------------------------------------------------------------------
\* Transcode stages (lines 118-181)
\* ------------------------------------------------------------------------

\* Variant of Trim: the exit code is not checked (check=False), so a failed
\* trim goes on to the resize.
TrimUnchecked ==
    /\ pc = "trim"
    /\ stages' = Begin("trim")
    /\ \E rc \in ExitCodes :
         /\ Call("trim", ffmpeg_path, RunOutcome(rc))
         /\ \E left \in SUBSET {trimmed_file} :
              fs' = fs \cup (IF rc = 0 THEN {trimmed_file} ELSE left)
         /\ stage_result' = Set("trim", IF rc = 0 THEN "ok" ELSE "failed")
    /\ Show("Trimming video...")
    /\ pc' = "resize"
    /\ UNCHANGED <<standalone, args, times, temp_dir, locals, warnings, cleanup_state,
                   error, result>>

\* subprocess.run(trim_cmd, check=True): CalledProcessError is re-raised as
\* "Failed to trim video"; a failed engine run may leave a partial output.
Trim ==
    /\ pc = "trim"
    /\ stages' = Begin("trim")
    /\ \E rc \in ExitCodes :
         /\ Call("trim", ffmpeg_path, RunOutcome(rc))
         /\ IF rc = 0
            THEN /\ fs' = fs \cup {trimmed_file}
                 /\ Show("Trimming video...")
                 /\ stage_result' = Set("trim", "ok")
                 /\ pc' = "resize"
                 /\ UNCHANGED error
            ELSE /\ \E left \in SUBSET {trimmed_file} : fs' = fs \cup left
                 /\ Show("Error trimming video")
                 /\ stage_result' = Set("trim", "failed")
                 /\ Raise(Err("Exception", "Failed to trim video"))
    /\ UNCHANGED <<standalone, args, times, temp_dir, locals, warnings, cleanup_state,
                   result>>

\* subprocess.run(resize_cmd, check=True)
Resize ==
    /\ pc = "resize"
    /\ stages' = Begin("resize")
    /\ \E rc \in ExitCodes :
         /\ Call("resize", ffmpeg_path, RunOutcome(rc))
         /\ IF rc = 0
            THEN /\ fs' = fs \cup {resized_file}
                 /\ Show("Resizing video...")
                 /\ stage_result' = Set("resize", "ok")
                 /\ pc' = "overlay"
                 /\ UNCHANGED error
            ELSE /\ \E left \in SUBSET {resized_file} : fs' = fs \cup left
                 /\ Show("Error resizing video")
                 /\ stage_result' = Set("resize", "failed")
                 /\ Raise(Err("Exception", "Failed to resize video"))
    /\ UNCHANGED <<standalone, args, times, temp_dir, locals, warnings, cleanup_state,
                   result>>

\* Variant of FallbackFinal: the final file stays the overlay output.
FallbackFinalKeepsOverlay(resized) == temp_final

\* except subprocess.CalledProcessError: ... final_file = resized_file
FallbackFinal(resized) == resized

\* Variant of CreditsStart: duration - 1 without the max.
CreditsStartNoMax(d) == FSub(d, Fin(2))

\* credits_start = max(0, duration - 1); one second is two half seconds.
CreditsStart(d) == FMax0(FSub(d, Fin(2)))

\* enable='between(t,{credits_start},{duration})'
EnableWindow(d) == <<CreditsStart(d), d>>

\* subprocess.run(credits_cmd, check=True); a failure is caught: one
\* st.warning, and the resized file becomes the final one.
Overlay ==
    /\ pc = "overlay"
    /\ enable_window' = EnableWindow(duration)
    /\ stages' = Begin("overlay")
    /\ \E rc \in ExitCodes :
         /\ Call("overlay", ffmpeg_path, RunOutcome(rc))
         /\ IF rc = 0
            THEN /\ fs' = fs \cup {temp_final}
                 /\ final_file' = temp_final
                 /\ Show("Adding credits...")
                 /\ stage_result' = Set("overlay", "ok")
                 /\ UNCHANGED warnings
            ELSE /\ \E left \in SUBSET {temp_final} : fs' = fs \cup left
                 /\ final_file' = FallbackFinal(resized_file)
                 /\ Show("Credits overlay failed, using resized video.")
                 /\ warnings' = warnings + 1
                 /\ stage_result' = Set("overlay", "failed")
    /\ pc' = "cleanup"
    /\ UNCHANGED <<standalone, args, times, temp_dir, info, channel_name, downloaded_file,
                   ffmpeg_path, cleanup_state, error, result>>

\* ------------------------------------------------------------------------
\* Cleanup and return (lines 183-197)
\* ------------------------------------------------------------------------

\* Variant of CleanupTargets: the removals do not compare with final_file.
CleanupTargetsNoKeep(downloaded, final) ==
    <<[file |-> downloaded, keep |-> FALSE],
      [file |-> trimmed_file, keep |-> FALSE],
      [file |-> resized_file, keep |-> FALSE]>>

\* The three guarded removals of the cleanup block, in order:
\*   if os.path.exists(downloaded_file): os.remove(downloaded_file)
\*   if os.path.exists(trimmed_file) and trimmed_file != final_file: ...
\*   if os.path.exists(resized_file) and resized_file != final_file: ...
CleanupTargets(downloaded, final) ==
    <<[file |-> downloaded, keep |-> FALSE],
      [file |-> trimmed_file, keep |-> trimmed_file = final],
      [file |-> resized_file, keep |-> resized_file = final]>>

\* Variant of RemoveStep: no os.path.exists test, so the removal of an absent
\* file raises.
RemoveStepNoExistsCheck(st, t, i, fail_at) ==
    IF st.failed \/ t.keep THEN st
    ELSE IF fail_at = i \/ t.file \notin st.fs THEN [st EXCEPT !.failed = TRUE]
    ELSE [st EXCEPT !.fs = @ \ {t.file}]

\* One guarded removal: skipped once a removal has raised, when the file is
\* absent or when it is the final file; the removal numbered fail_at raises.
RemoveStep(st, t, i, fail_at) ==
    IF st.failed \/ t.keep \/ t.file \notin st.fs THEN st
    ELSE IF fail_at = i THEN [st EXCEPT !.failed = TRUE]
    ELSE [st EXCEPT !.fs = @ \ {t.file}]

\* The try block: the scratch directory afterwards, and whether a removal raised.
RunCleanup(files, downloaded, final, fail_at) ==
    LET T == CleanupTargets(downloaded, final)
        s0 == [fs |-> files, failed |-> FALSE]
        s1 == RemoveStep(s0, T[1], 1, fail_at)
        s2 == RemoveStep(s1, T[2], 2, fail_at)
    IN  RemoveStep(s2, T[3], 3, fail_at)

\* Variant of CleanupPropagates: the except clause is missing.
CleanupPropagatesError(failed) == failed

\* except Exception: pass
CleanupPropagates(failed) == FALSE

Cleanup ==
    /\ pc = "cleanup"
    /\ stages' = Begin("cleanup")
    /\ cleanup_ran' = TRUE
    /\ Show("Cleaning up temporary files...")
    /\ \E fail_at \in 0..Len(CleanupTargets(downloaded_file, final_file)) :
         LET r == RunCleanup(fs, downloaded_file, final_file, fail_at) IN
         /\ fs' = r.fs
         /\ cleanup_error' = r.failed
         /\ IF CleanupPropagates(r.failed)
            THEN /\ stage_result' = Set("cleanup", "failed")
                 /\ Raise(Err("OSError", ""))
            ELSE /\ stage_result' = Set("cleanup", "ok")
                 /\ pc' = "return"
                 /\ UNCHANGED error
    /\ UNCHANGED <<standalone, args, times, temp_dir, locals, calls, warnings, result>>

\* return final_file
Return ==
    /\ pc = "return"
    /\ Show("Processing complete!")
    /\ result' = final_file
    /\ pc' = "done"
    /\ UNCHANGED <<standalone, args, times, temp_dir, fs, locals, calls, stages,
                   stage_result, warnings, cleanup_state, error>>

Next ==
    \/ ParseStart
    \/ ParseEnd
    \/ CheckRange
    \/ Mkdtemp
    \/ WriteCookies
    \/ ExtractInfo
    \/ Download
    \/ FindFile
    \/ ProbePrimary
    \/ ProbeFallback
    \/ Trim
    \/ Resize
    \/ Overlay
    \/ Cleanup
    \/ Return

Spec == Init /\ [][Next]_vars

\* ------------------------------------------------------------------------
\* parse_time on its own (lines 8-21; called from main, lines 260-261)
\* ------------------------------------------------------------------------

\* No run of download_and_resize_clip is under way.
NoRun ==
    /\ cookies_content = "None"
    /\ start_time = NoValue
    /\ end_time = NoValue
    /\ duration = NoValue
    /\ temp_dir = FALSE
    /\ channel_name = ""
    /\ ffmpeg_path = ""
    /\ calls = <<>>
    /\ stage_result = [s \in Stages |-> "not_run"]
    /\ status_text = ""
    /\ warnings = 0
    /\ cleanup_ran = FALSE
    /\ error = NoError
    /\ result = NoFile
    /\ info = NoInfo
    /\ enable_window = <<>>

InitParse ==
    /\ NoRun
    /\ observer = FALSE
    /\ pc = "parse_time"
    /\ time_str \in ParseTimeTexts
    /\ parsed = NoValue
    /\ hook_d = NoEvent
    /\ progress = <<>>
    /\ fs = {}
    /\ downloaded_file = NoFile
    /\ final_file = NoFile
    /\ stages = <<>>
    /\ cleanup_error = FALSE

\* parse_time(time_str)
ParseTimeCall ==
    /\ pc = "parse_time"
    /\ parsed' = parse_time(time_str)
    /\ pc' = "parsed"
    /\ UNCHANGED <<time_str, hook_d, progress, args, times, temp_dir, fs,
                   locals, calls, stages, stage_result, status_text, warnings,
                   cleanup_state, error, result>>

NextParse == ParseTimeCall

SpecParse == InitParse /\ [][NextParse]_vars

\* ------------------------------------------------------------------------
\* The cleanup block on its own (lines 185-194), run on a scratch directory
\* in any state, once or several times
\* ------------------------------------------------------------------------

ScratchFiles ==
    DownloadNames \cup {cookies_file, trimmed_file, resized_file, temp_final}

InitCleanup ==
    /\ NoRun
    /\ observer = FALSE
    /\ pc = "cleanup_alone"
    /\ fs \in SUBSET ScratchFiles
    /\ downloaded_file \in DownloadNames
    /\ final_file \in {temp_final, resized_file}
    /\ stages = <<>>
    /\ cleanup_error = FALSE
    /\ time_str = <<>>
    /\ parsed = NoValue
    /\ hook_d = NoEvent
    /\ progress = <<>>

CleanupCall ==
    /\ pc = "cleanup_alone"
    /\ Len(stages) < MaxCleanups
    /\ stages' = Begin("cleanup")
    /\ cleanup_ran' = TRUE
    /\ \E fail_at \in 0..Len(CleanupTargets(downloaded_file, final_file)) :
         LET r == RunCleanup(fs, downloaded_file, final_file, fail_at) IN
         /\ fs' = r.fs
         /\ cleanup_error' = r.failed
         /\ error' = IF CleanupPropagates(r.failed)
                     THEN Err("OSError", "") ELSE error
    /\ UNCHANGED <<standalone, args, times, temp_dir, locals, calls, pc,
                   stage_result, status_text, warnings, result>>

NextCleanup == CleanupCall

SpecCleanup == InitCleanup /\ [][NextCleanup]_vars

\* ------------------------------------------------------------------------
\* my_hook on its own (lines 52-70)
\* ------------------------------------------------------------------------

\* A percent text is a sequence of pieces, the piece "%" being the percent
\* sign: "50.0%" is <<"50.0", "%">>.
PercentTexts ==
    {<<"0.0", "%">>, <<"50.0", "%">>, <<"100.0", "%">>, <<"150.0", "%">>,
     <<"-50.0", "%">>, <<"inf", "%">>, <<"N/A">>, <<"50.0", "%", "0.0">>}

\* The events the resolver calls the hook with; the percent may be absent.
HookEvents ==
    {[status |-> st, has_percent |-> TRUE, percent_str |-> p] :
        st \in {"downloading", "finished", "error"}, p \in PercentTexts}
    \cup {[status |-> st, has_percent |-> FALSE, percent_str |-> <<>>] :
        st \in {"downloading", "finished", "error"}}

\* d.get('_percent_str', '0.0%')
GetPercentStr(d) ==
    IF d.has_percent THEN d.percent_str ELSE <<"0.0", "%">>

RECURSIVE LStrip(_)
LStrip(text) ==
    IF text # <<>> /\ Head(text) = "%" THEN LStrip(Tail(text)) ELSE text

RECURSIVE RStrip(_)
RStrip(text) ==
    IF text # <<>> /\ text[Len(text)] = "%"
    THEN RStrip(SubSeq(text, 1, Len(text) - 1))
    ELSE text

\* percent_str.strip('%')
StripPercent(text) == RStrip(LStrip(text))

\* float(cleaned_percent_str): a number only when one numeric piece is left.
FloatOfPieces(text) ==
    IF Len(text) = 1 THEN float(text[1]) ELSE ValueError

\* The fractions my_hook gives to progress_bar.progress for the event d.
my_hook(d, has_observer) ==
    IF ~has_observer THEN <<>>
    ELSE IF d.status = "downloading"
    THEN LET x == FloatOfPieces(StripPercent(GetPercentStr(d))) IN
         IF x = ValueError THEN <<Fin(0)>> ELSE <<FDivConst(x, 100)>>
    ELSE IF d.status = "finished" THEN <<Fin(2)>>
    ELSE <<>>

\* The text my_hook shows on status_text for the event d.
HookText(d) ==
    CASE d.status = "downloading" -> "Downloading"
      [] d.status = "finished" ->
            "Download complete. Initializing processing..."
      [] OTHER -> "Error during download."

InitHook ==
    /\ NoRun
    /\ observer \in BOOLEAN
    /\ pc = "hook"
    /\ fs = {}
    /\ downloaded_file = NoFile
    /\ final_file = NoFile
    /\ stages = <<>>
    /\ cleanup_error = FALSE
    /\ time_str = <<>>
    /\ parsed = NoValue
    /\ hook_d = NoEvent
    /\ progress = <<>>

HookCall ==
    /\ pc = "hook"
    /\ Len(calls) < MaxHookCalls
    /\ \E d \in HookEvents :
         /\ hook_d' = d
         /\ Call("my_hook", d.status, "ok")
         /\ progress' = progress \o my_hook(d, observer)
         /\ Show(HookText(d))
    /\ UNCHANGED <<time_str, parsed, args, times, temp_dir, fs, locals, stages,
                   pc, stage_result, warnings, cleanup_state, error, result>>

NextHook == HookCall

SpecHook == InitHook /\ [][NextHook]_vars

\* ------------------------------------------------------------------------
\* Vocabulary of the properties
\* ------------------------------------------------------------------------

\* The run has reached its terminal outcome: a returned path or a raised error.
Terminal == pc \in {"done", "failed"}

Invoked(op) == \E i \in 1..Len(calls) : calls[i].op = op

\* No engine subprocess of a transcode stage has been executed.
NoTranscodeCalls == ~ \E i \in 1..Len(calls) : calls[i].op \in {"trim", "resize", "overlay"}

\* The probe of the engine at this path ran and failed.
ProbeFailedAt(path) ==
    \E i \in 1..Len(calls) :
        calls[i].op = "probe" /\ calls[i].arg = path /\ calls[i].out # "ok"

StageIndex(s) == CHOOSE i \in 1..Len(StageOrder) : StageOrder[i] = s

\* The stages were invoked in the order of StageOrder, each at most once.
StagesInOrder ==
    \A i, j \in 1..Len(stages) :
        i < j => StageIndex(stages[i]) < StageIndex(stages[j])

\* A failure of download, trim or resize ends the run in failure, and the
\* failed stage is the last one invoked.
FatalStageEndsRun ==
    \A s \in {"download", "trim", "resize"} :
        stage_result[s] = "failed" =>
            pc = "failed" /\ stages[Len(stages)] = s /\ ~cleanup_ran

NoVideoError == Err("Exception", "No video file was downloaded")
EngineUnavailableError == Err("Exception", "FFmpeg is not available")

\* ------------------------------------------------------------------------
\* Properties
\* ------------------------------------------------------------------------

\* C1: every run that has created its scratch directory has executed the
\* cleanup step by the time it reaches its terminal outcome, be it a
\* returned path or a raised error.
C1_CleanupOnEveryExit ==
    (Terminal /\ temp_dir) => cleanup_ran

\* C2: when the parsed end is not after the parsed start, or a time text
\* does not parse, the run raises its validation error and has touched no
\* external resource: no scratch directory, no file, no resolver or engine
\* call.
C2_ValidationBeforeResources ==
    LET rejected ==
          \/ error = Err("ValueError", "parse_time")
          \/ /\ start_time # NoValue
             /\ end_time # NoValue
             /\ FLe(end_time, start_time)
    IN  rejected =>
          /\ ~temp_dir
          /\ fs = {}
          /\ calls = <<>>
          /\ pc \in {"check_range", "failed"}
          /\ pc = "failed" => error.type = "ValueError"

\* C3: at the end of a successful run in which no removal failed, the final
\* artifact is the only file left in the scratch directory.
C3_OnlyFinalArtifactLeft ==
    (pc = "done" /\ ~cleanup_error) => fs = {result}

\* C4: once the overlay stage has failed, the run does not fail: it goes on
\* to cleanup and returns the resized artifact, which is still in the
\* scratch directory, and exactly one warning has been emitted.
C4_OverlayFailureDegrades ==
    stage_result["overlay"] = "failed" =>
        /\ pc \in {"cleanup", "return", "done"}
        /\ error = NoError
        /\ warnings = 1
        /\ final_file = resized_file
        /\ resized_file \in fs
        /\ pc \in {"return", "done"} => cleanup_ran
        /\ pc = "done" => result = resized_file

C4_Witness ==
    /\ pc = "done"
    /\ stage_result["overlay"] = "failed"
    /\ result = resized_file

\* C5 as stated: the stages run in order, each at most once, a stage is
\* invoked only if every earlier stage succeeded, and a failure of download,
\* trim or resize ends the run with no later stage invoked.
C5_Original ==
    /\ StagesInOrder
    /\ FatalStageEndsRun
    /\ \A i \in 1..Len(stages) :
         \A k \in 1..(StageIndex(stages[i]) - 1) :
             stage_result[StageOrder[k]] = "ok"

\* C5 amended: as C5, except that cleanup is invoked once the overlay was
\* attempted, whether it succeeded or failed (every stage before the overlay
\* having succeeded).
C5_StageOrder ==
    /\ StagesInOrder
    /\ FatalStageEndsRun
    /\ \A i \in 1..Len(stages) :
         \A k \in 1..(StageIndex(stages[i]) - 1) :
             \/ stage_result[StageOrder[k]] = "ok"
             \/ /\ stages[i] = "cleanup"
                /\ StageOrder[k] = "overlay"
                /\ stage_result["overlay"] = "failed"

C5_Witness ==
    /\ pc = "done"
    /\ stages = StageOrder
    /\ stage_result["overlay"] = "failed"
    /\ stage_result["cleanup"] = "ok"

\* C6: when the listing of the scratch directory after a successful download
\* finds no file under the prefix temp_download, the run fails with "No video
\* file was downloaded", and a run that failed so has invoked no transcode
\* stage.
C6_NoFileProduced ==
    /\ [][(pc = "listdir" /\ ~ \E f \in fs : f.stem = "temp_download")
            => (pc' = "failed" /\ error' = NoVideoError)]_vars
    /\ [](error = NoVideoError => (pc = "failed" /\ NoTranscodeCalls))

C6_Witness ==
    /\ error = NoVideoError
    /\ calls[Len(calls) - 1] = [op |-> "download", arg |-> "", out |-> "ok"]
    /\ cookies_file \in fs

\* C7: when the version probe has failed at 'ffmpeg' and at
\* '/usr/bin/ffmpeg', the run has failed with the engine-unavailable error
\* and no trim, resize or overlay subprocess has been executed.
C7_EngineUnavailable ==
    (ProbeFailedAt("ffmpeg") /\ ProbeFailedAt("/usr/bin/ffmpeg")) =>
        /\ pc = "failed"
        /\ error = EngineUnavailableError
        /\ NoTranscodeCalls

C7_Witness ==
    /\ ProbeFailedAt("ffmpeg")
    /\ calls[Len(calls)] =
         [op |-> "probe", arg |-> "/usr/bin/ffmpeg", out |-> "FileNotFoundError"]

\* C8: after cleanup the final file, whichever it is, still exists and is
\* the path returned; every superseded artifact (the raw download, the
\* trimmed file, the resized file when it is not final) is removed by a
\* cleanup in which no removal fails.
C8_FinalSurvivesCleanup ==
    pc \in {"return", "done"} =>
        /\ final_file \in {temp_final, resized_file}
        /\ final_file \in fs
        /\ pc = "done" => result = final_file
        /\ ~cleanup_error =>
             /\ downloaded_file \notin fs
             /\ trimmed_file \notin fs
             /\ resized_file # final_file => resized_file \notin fs

C8_Witness ==
    /\ pc = "done"
    /\ result = resized_file
    /\ resized_file \in fs
    /\ trimmed_file \notin fs
    /\ downloaded_file \notin fs

\* C9: a removal that fails during cleanup never fails the run: once trim
\* and resize have succeeded the run never reaches the failed outcome, and
\* after a failed removal the caller still receives the final artifact path.
C9_CleanupErrorsSwallowed ==
    /\ (stage_result["trim"] = "ok" /\ stage_result["resize"] = "ok") =>
           (pc # "failed" /\ error = NoError)
    /\ cleanup_error =>
           /\ pc \in {"return", "done"}
           /\ pc = "done" => (result = final_file /\ result # NoFile)

C9_Witness ==
    /\ cleanup_error
    /\ pc = "done"
    /\ result = temp_final
    /\ downloaded_file \in fs

\* C10: every value parse_time returns is a non-negative number of seconds.
C10_ParseTimeNonNegative ==
    /\ start_time # NoValue => FLe(Fin(0), start_time)
    /\ end_time # NoValue => FLe(Fin(0), end_time)

\* C11: for a time text of one, two or three numeric segments parse_time
\* returns S, M*60+S or H*3600+M*60+S; "1:23" gives 83, "2:30:45" gives 9045
\* and "90" gives 90 (in half seconds: 166, 18090 and 180).
NumericSegments == SegmentTexts \ {"abc", ""}

IsNumericText(text) == \A i \in 1..Len(text) : text[i] \in NumericSegments

RECURSIVE WeightedSum(_, _)
\* The sum of the first n segments' half seconds, each weighted by the power
\* of 60 of its place.
WeightedSum(text, n) ==
    IF n = 0 THEN 0
    ELSE WeightedSum(text, n - 1) + float(text[n]).v * 60 ^ (Len(text) - n)

\* One infinite segment makes the sum infinite (there is no negative infinity
\* among the segments).
LinearCombination(text) ==
    IF \E i \in 1..Len(text) : text[i] = "inf" THEN INF
    ELSE Fin(WeightedSum(text, Len(text)))

C11_ParseTimeLinear ==
    /\ (pc = "parsed" /\ IsNumericText(time_str) /\ Len(time_str) <= 3) =>
           parsed = LinearCombination(time_str)
    /\ parse_time(<<"1", "23">>) = Fin(166)
    /\ parse_time(<<"2", "30", "45">>) = Fin(18090)
    /\ parse_time(<<"90">>) = Fin(180)

C11_Witness ==
    /\ pc = "parsed"
    /\ time_str = <<"2", "30", "45">>
    /\ parsed = Fin(18090)

\* C12: for a malformed time text (four or more segments, or a segment that
\* is empty or not a number) parse_time raises ValueError and returns nothing.
Malformed(text) == Len(text) >= 4 \/ ~IsNumericText(text)

C12_MalformedRaisesValueError ==
    (pc = "parsed" /\ Malformed(time_str)) => parsed = ValueError

C12_Witness ==
    /\ pc = "parsed"
    /\ time_str = <<"1", "2", "30", "45">>
    /\ parsed = ValueError

\* C13: the uploader name used for the caption is the name the source
\* provides, and "Unknown Channel" when the uploader field is absent or null.
C13_UploaderOrSentinel ==
    info # NoInfo =>
        channel_name = IF info.has /\ info.uploader # "None"
                       THEN info.uploader
                       ELSE "Unknown Channel"

\* C15: a run has exactly one terminal outcome, a returned path or a raised
\* error; the error names the first stage that failed, and neither an overlay
\* failure nor a cleanup failure is ever the error.
LastCall == calls[Len(calls)]

ExpectedErrors ==
    IF stage_result["validate"] = "failed"
    THEN {Err("ValueError", "parse_time"),
          Err("ValueError", "End time must be after start time")}
    ELSE IF stage_result["resolve"] = "failed"
    THEN {Err("Exception", "Failed to download video")}
    ELSE IF stage_result["download"] = "failed"
    THEN IF LastCall.op = "download"
         THEN {Err("Exception", "Failed to download video")}
         ELSE {NoVideoError}
    ELSE IF stage_result["trim"] = "failed"
    THEN {Err("Exception", "Failed to trim video")}
    ELSE IF stage_result["resize"] = "failed"
    THEN {Err("Exception", "Failed to resize video")}
    ELSE IF ProbeFailedAt("ffmpeg") /\ ProbeFailedAt("/usr/bin/ffmpeg")
    THEN {EngineUnavailableError}
    ELSE {}

C15_OneTerminalOutcome ==
    /\ pc = "done" => (result = final_file /\ result # NoFile /\ error = NoError)
    /\ pc = "failed" => (result = NoFile /\ error \in ExpectedErrors)
    /\ ~Terminal => (result = NoFile /\ error = NoError)
    /\ (stage_result["overlay"] = "failed" \/ cleanup_error) => error = NoError

C15_Witness ==
    /\ pc = "failed"
    /\ error = Err("Exception", "Failed to resize video")
    /\ stage_result["trim"] = "ok"

\* C17: the credential file is written before any resolver call and only
\* when a credential is supplied; the metadata query precedes the download;
\* when the metadata query fails the download is never attempted and the run
\* fails with the fetch error.
CallsOf(op) == {i \in 1..Len(calls) : calls[i].op = op}

Before(op1, op2) == \A i \in CallsOf(op1), j \in CallsOf(op2) : i < j

C17_FetchOrder ==
    /\ CallsOf("write") # {} => cookies_content = "cookie text"
    /\ (CallsOf("extract_info") # {} /\ cookies_content = "cookie text") =>
           (CallsOf("write") # {} /\ cookies_file \in fs)
    /\ Before("write", "extract_info")
    /\ Before("write", "download")
    /\ Before("extract_info", "download")
    /\ \A op \in {"write", "extract_info", "download"} :
           Cardinality(CallsOf(op)) <= 1
    /\ CallsOf("download") # {} =>
           \E i \in CallsOf("extract_info") : calls[i].out = "ok"
    /\ (\E i \in CallsOf("extract_info") : calls[i].out # "ok") =>
           /\ CallsOf("download") = {}
           /\ pc = "failed"
           /\ error = Err("Exception", "Failed to download video")

C17_Witness ==
    /\ cookies_content = "cookie text"
    /\ Len(calls) = 3
    /\ calls[2].op = "write"
    /\ calls[3] = [op |-> "extract_info", arg |-> "", out |-> "Exception"]
    /\ pc = "failed"

\* C19: for an accepted request (duration > 0) the caption's enable window
\* passed to the overlay is [max(0, duration - 1), duration]: it starts at a
\* non-negative time, ends at the duration and is min(1, duration) long;
\* "1:30" to "2:15" gives duration 45 and the window [44, 45].
Positive(d) == ~FLe(d, Fin(0)) /\ d.k # "nan"

\* min(1, d) for a positive d; one second is two half seconds.
MinOneSecond(d) == IF FLe(Fin(2), d) THEN Fin(2) ELSE d

C19_CreditsWindow ==
    /\ (CallsOf("overlay") # {} /\ Positive(duration)) =>
           /\ Len(enable_window) = 2
           /\ FLe(Fin(0), enable_window[1])
           /\ enable_window[2] = duration
           /\ FAdd(enable_window[1], MinOneSecond(duration)) = enable_window[2]
           /\ duration.k = "fin" =>
                enable_window[1] =
                    Fin(IF duration.v >= 2 THEN duration.v - 2 ELSE 0)
    /\ LET d == FSub(parse_time(<<"2", "15">>), parse_time(<<"1", "30">>))
       IN  d = Fin(90) /\ EnableWindow(d) = <<Fin(88), Fin(90)>>

C19_Witness ==
    /\ CallsOf("overlay") # {}
    /\ duration = Fin(1)
    /\ enable_window = <<Fin(0), Fin(1)>>

\* C20: the fallback location is probed only after the primary probe has
\* failed, and every trim, resize and overlay invocation uses the one path
\* whose probe succeeded in the run.
TranscodeCalls == CallsOf("trim") \cup CallsOf("resize") \cup CallsOf("overlay")

C20_EnginePath ==
    /\ \A i \in CallsOf("probe") :
           calls[i].arg = "/usr/bin/ffmpeg" =>
               \E j \in 1..(i - 1) :
                   /\ calls[j].op = "probe"
                   /\ calls[j].arg = "ffmpeg"
                   /\ calls[j].out # "ok"
    /\ Cardinality({i \in CallsOf("probe") : calls[i].out = "ok"}) <= 1
    /\ \A i \in TranscodeCalls :
           /\ calls[i].arg = ffmpeg_path
           /\ \E j \in 1..(i - 1) :
                  /\ calls[j].op = "probe"
                  /\ calls[j].arg = calls[i].arg
                  /\ calls[j].out = "ok"
           /\ ~ \E j \in CallsOf("probe") :
                  calls[j].arg = calls[i].arg /\ calls[j].out # "ok"

C20_Witness ==
    /\ ProbeFailedAt("ffmpeg")
    /\ \E i \in CallsOf("overlay") : calls[i].arg = "/usr/bin/ffmpeg"
    /\ pc = "done"

\* C16: cleanup is idempotent: run on a scratch directory whose intermediate
\* files are already removed or were never created, it raises nothing and
\* changes no file, and a second cleanup after a first one in which no
\* removal failed leaves the directory as the first one left it.
NothingToRemove ==
    /\ downloaded_file \notin fs
    /\ trimmed_file \in fs => trimmed_file = final_file
    /\ resized_file \in fs => resized_file = final_file

C16_CleanupIdempotent ==
    /\ [][(pc = "cleanup_alone" /\ NothingToRemove) =>
            (fs' = fs /\ ~cleanup_error' /\ error' = NoError)]_vars
    /\ [][(pc = "cleanup_alone" /\ cleanup_ran /\ ~cleanup_error) =>
            (fs' = fs /\ ~cleanup_error' /\ error' = NoError)]_vars

C16_Witness ==
    /\ pc = "cleanup_alone"
    /\ Len(stages) = 2
    /\ ~cleanup_error
    /\ fs = {temp_final, cookies_file}

\* C18: every fraction the download hook gives to the observer lies between
\* 0 and 1 (0 and 2 half units) whatever percent text the resolver supplies.
C18_ProgressInRange ==
    \A i \in 1..Len(progress) :
        FLe(Fin(0), progress[i]) /\ FLe(progress[i], Fin(2))

====
